---- MODULE Spec2Model ----
(***************************************************************************)
(* A model of go-blaze, a client library for the B2 object storage REST    *)
(* service.  The repository holds three revisions of the library:          *)
(*   r1  src/unnamed/part_003: Session.UploadFile acquires a lease lazily  *)
(*       for the bucket id it is given and caches it in B2.Upload; the     *)
(*       response envelope is a json.Decoder plus b2ErrToErr;              *)
(*   r2  src/b2.go: Session.UploadFile needs B2.Upload to be set by the    *)
(*       caller; the envelope is readResp(resp, output) returning *Err;    *)
(*   r3  src/unnamed/part_001 (bucket.go, b2.go), part_000 (fileinfo.go,   *)
(*       filename.go), part_002 (upload.go): handles with a conn           *)
(*       back-reference, Bucket.UploadFile with a lazy lease cache.        *)
(* A program links one revision: rev is chosen in Init and never changes.  *)
(* Callers are threads of control; each library call is a sequence of      *)
(* steps, one per access to shared memory or to the network.               *)
(***************************************************************************)
EXTENDS Integers, Sequences, FiniteSets, TLC

VARIABLES
  rev,      \* the revision of the library the program is built with
  callers,  \* the threads of control that call the library
  session,  \* the *B2 the program got from NewB2 and holds
  bucket,   \* the *Bucket handle the program holds (r3; NoBucket otherwise)
  pc,       \* pc[t]: where caller t is inside its current call
  call,     \* call[t]: the current (or last returned) call of caller t
  issued,   \* number of upload leases the service has granted
  budget,   \* budget[t]: calls caller t may still start
  held,     \* the *Upload the program got from GetUploadURL and keeps
  file,     \* the *FileInfo the program was given last and keeps (r3)
  fname,    \* the FileName the program was given last and keeps (r3)
  crashed,  \* the process died of a nil dereference / nil map write
  header,   \* the headers of the 200 download response being read
  info,     \* what readHeaderFileInfo made of them
  store,    \* the file versions of the bucket a caller is listing
  page,     \* the listing loop of that caller
  trip      \* a file name on its way through an upload and a download

\* what the specifications of single functions and of listing loops work on;
\* the operations of Spec and SpecRace leave it alone
aside == <<header, info, store, page, trip>>

vars == <<rev, callers, session, bucket, pc, call, issued, budget, held, file, fname, crashed,
          aside>>

(* ------------------------------ bounds --------------------------------- *)

\* calls a program with one goroutine starts
MaxCalls == 3
\* calls the first of two concurrent goroutines starts
MaxRaceCalls == 2
\* calls the second of two concurrent goroutines starts
MaxRaceUploads == 1

(* ----------------------------- constants ------------------------------- *)

GoodStatus == 200

Revisions == {"r1", "r2", "r3"}
Threads == {1, 2}
BucketIDs == {"b1", "b2"}
BucketTypes == {"allPrivate", "allPublic"}
Statuses == {200, 401}
\* json: the documented JSON object for the status (the result on 200, the
\* error object otherwise); empty: zero bytes; garbage: not JSON;
\* broken: the body cannot be read to its end
Bodies == {"json", "empty", "garbage", "broken"}
\* what http.DefaultClient.Do gives back: a transport failure or a response
NoResponse == [fail |-> TRUE, status |-> 0, body |-> "none"]
Responses == {NoResponse} \cup [fail : {FALSE}, status : Statuses, body : Bodies]
\* the outcomes that decide what the lease protocol does next: the request
\* fails, the service accepts it, the service rejects it
PlainResponses == {NoResponse, [fail |-> FALSE, status |-> 200, body |-> "json"],
                   [fail |-> FALSE, status |-> 401, body |-> "json"]}
\* file names: one that url.Parse accepts, one that it rejects
FileNames == {"a.txt", "%zz"}

(* ------------------------------- values -------------------------------- *)

\* *Upload: nil, or a pointer to {BucketID, UploadURL, AuthToken}
NilLease == [nil |-> TRUE, BucketID |-> "", UploadURL |-> 0, AuthToken |-> 0]
\* &Upload{} left untouched by a decoder that met an empty body
ZeroLease == [nil |-> FALSE, BucketID |-> "", UploadURL |-> 0, AuthToken |-> 0]
\* the lease number n the service grants for bucket b
Lease(n, b) == [nil |-> FALSE, BucketID |-> b, UploadURL |-> n, AuthToken |-> n]

NoSession == [live |-> FALSE, AccountID |-> "", APIUrl |-> "", DownloadURL |-> "",
              AuthToken |-> "", Upload |-> NilLease]
\* B2 as decoded from the b2_authorize_account response
NewSession == [live |-> TRUE, AccountID |-> "acct", APIUrl |-> "api", DownloadURL |-> "dl",
               AuthToken |-> "auth", Upload |-> NilLease]

NoHandle == [live |-> FALSE, conn |-> FALSE]

NoBucket == [live |-> FALSE, AccountID |-> "", ID |-> "", Name |-> "", Type |-> "",
             conn |-> FALSE, upload |-> NilLease]

\* result pairs (value, error) of an operation
Res(v, e) == [val |-> v, err |-> e]

\* what a frame keeps of a response: its status, and whether its body is the
\* JSON the status calls for
Seen(resp) == [status |-> resp.status, json |-> resp.body = "json"]

\* the frame of a call: its operation and arguments, what it has in hand
\* (u: the *Upload it read or was granted; url, token: what it put in its
\* upload request, 0 while unsent; lfor: the bucket the lease of that url
\* was granted for), the requests it has issued (reqs; lreqs
\* of them lease requests), whether one of them failed, whether it found a
\* lease cached on entry (had), whether bytes went to the sink (copied),
\* the response to its last request (resp), and what it returned (val, err)
IdleCall == [op |-> "none", bkt |-> "", bucketType |-> "", u |-> NilLease, url |-> 0,
             token |-> 0, lfor |-> "",
             reqs |-> 0, lreqs |-> 0, failed |-> FALSE, had |-> FALSE, copied |-> FALSE,
             resp |-> Seen(NoResponse), val |-> "nil", err |-> "nil"]

\* the replies a run draws from: all of them for a program with one
\* goroutine, the deciding ones for two goroutines racing on a lease cache
Replies == IF callers = {1} THEN Responses ELSE PlainResponses

(* --------------------------- response envelope ------------------------- *)

\* http.DefaultClient.Do: a request whose URL has no scheme (the base URL of
\* a zero-valued struct) fails in the client and never reaches the network
Do(base, r) ==
  IF base = ""
    THEN [sent |-> FALSE, resp |-> NoResponse]
    ELSE [sent |-> TRUE, resp |-> r]

\* readResp without its status check: every readable body is decoded as
\* the output
readRespAnyStatus(resp) ==
  IF resp.body = "broken" THEN "transport"
  ELSE IF resp.body = "json" THEN "nil" ELSE "decode"

\* r2, r3: readResp(resp, output) returns the error; nil means output is filled
readResp(resp) ==
  IF resp.body = "broken" THEN "transport"
  ELSE IF resp.status = GoodStatus
    THEN (IF resp.body = "json" THEN "nil" ELSE "decode")
    ELSE (IF resp.body = "json" THEN "api" ELSE "decode")

\* r1: readResp(decoder, output) forgives io.EOF, the error of an empty body
readRespDecoder(body) ==
  IF body = "broken" THEN "transport"
  ELSE IF body = "garbage" THEN "decode"
  ELSE "nil"

\* r1: the error made from a decoded b2Err is a formatted string
b2ErrToErr == "opaque"

\* r1: the status branch every operation repeats around readResp
StatusBranch(resp) ==
  LET e == readRespDecoder(resp.body) IN
  IF resp.status = GoodStatus
    THEN (IF e # "nil" THEN Res("nil", e)
          ELSE Res(IF resp.body = "empty" THEN "zero" ELSE "value", "nil"))
    ELSE (IF e # "nil" THEN Res("nil", e) ELSE Res("nil", b2ErrToErr))

\* r2, r3: "err = readResp(resp, x); if err != nil { return nil, err }; return x, nil"
ReturnDecoded(resp) ==
  LET e == readResp(resp) IN
  IF e # "nil" THEN Res("nil", e) ELSE Res("value", "nil")

\* what an operation returns for the outcome of its round trip
Envelope(rv, resp) ==
  IF resp.fail THEN Res("nil", "transport")
  ELSE IF rv = "r1" THEN StatusBranch(resp)
  ELSE ReturnDecoded(resp)

\* one blocking round trip against `base`, and what the operation makes of it
Exchange(base, r) ==
  LET d == Do(base, r) IN [sent |-> d.sent, resp |-> d.resp, res |-> Envelope(rev, d.resp)]

(* ------------------------------ call frames ---------------------------- *)

Ready(t) == ~crashed /\ t \in callers /\ pc[t] = "idle" /\ budget[t] > 0
In(t, l) == ~crashed /\ t \in callers /\ pc[t] = l

\* the frame of a call that returned x.res after at most one round trip
Returned(op, x) ==
  [IdleCall EXCEPT !.op = op, !.reqs = IF x.sent THEN 1 ELSE 0,
                   !.failed = x.res.err # "nil", !.resp = Seen(x.resp),
                   !.val = x.res.val, !.err = x.res.err]

\* a Session method that is one request and one decoded response
SessionCall(t, op, x) ==
  /\ call' = [call EXCEPT ![t] = Returned(op, x)]
  /\ budget' = [budget EXCEPT ![t] = @ - 1]
  /\ UNCHANGED <<aside, rev, callers, pc, issued, crashed>>

(* ------------------------------ operations ----------------------------- *)

ZeroSession == [NoSession EXCEPT !.live = TRUE]

APIurl == "https://api.backblaze.com"

\* NewB2 renewing the Session the program holds with the new credentials
NewB2InPlace(t) ==
  /\ Ready(t)
  /\ \E r \in Replies :
       LET x == Exchange(APIurl, r) IN
       /\ SessionCall(t, "NewB2", x)
       /\ session' = IF x.res.err # "nil" THEN session
                     ELSE [session EXCEPT !.AuthToken = "auth2"]
  /\ UNCHANGED <<bucket, held, file, fname>>

\* NewB2 makes another Session; the one the program holds is not its input
NewB2(t) ==
  /\ Ready(t)
  /\ \E r \in Replies : SessionCall(t, "NewB2", Exchange(APIurl, r))
  /\ UNCHANGED <<session, bucket, held, file, fname>>

CreateBucket(t) ==
  /\ Ready(t) /\ session.live
  /\ \E r \in Replies : SessionCall(t, "CreateBucket", Exchange(session.APIUrl, r))
  /\ UNCHANGED <<session, bucket, held, file, fname>>

\* DeleteBucket sending its request again when the first one failed
DeleteBucketAgain(t) ==
  /\ Ready(t) /\ session.live
  /\ \E r \in Replies, r2 \in Replies :
       LET x == Exchange(session.APIUrl, r)
           y == Exchange(session.APIUrl, r2) IN
       /\ call' = [call EXCEPT ![t] =
                      IF x.res.err = "nil" THEN Returned("DeleteBucket", x)
                      ELSE [Returned("DeleteBucket", y) EXCEPT !.reqs = 2]]
       /\ budget' = [budget EXCEPT ![t] = @ - 1]
  /\ UNCHANGED <<aside, rev, callers, pc, issued, crashed, session, bucket, held, file, fname>>

DeleteBucket(t) ==
  /\ Ready(t) /\ session.live
  /\ \E r \in Replies : SessionCall(t, "DeleteBucket", Exchange(session.APIUrl, r))
  /\ UNCHANGED <<session, bucket, held, file, fname>>

\* GetUploadURL returning the &Upload{} it decoded into along with the error
GrantedWithError(x, b) ==
  IF x.res.err # "nil" THEN ZeroLease
  ELSE IF x.res.val = "zero" THEN ZeroLease
  ELSE Lease(issued + 1, b)

\* the *Upload a b2_get_upload_url exchange for bucket b decodes (nil on error)
Granted(x, b) ==
  IF x.res.err # "nil" THEN NilLease
  ELSE IF x.res.val = "zero" THEN ZeroLease
  ELSE Lease(issued + 1, b)

Count(x) == IF x.res.val = "value" THEN issued + 1 ELSE issued

\* GetUploadURL asking again when the first request failed
GetUploadURLRetrying(t) ==
  /\ Ready(t) /\ session.live
  /\ \E r \in Replies, r2 \in Replies, b \in BucketIDs :
       LET x == Exchange(session.APIUrl, r)
           y == IF x.res.err = "nil" THEN x ELSE Exchange(session.APIUrl, r2)
           n == IF x.res.err = "nil" THEN 1 ELSE 2 IN
       /\ call' = [call EXCEPT ![t] = [Returned("GetUploadURL", y) EXCEPT
                                         !.bkt = b, !.u = Granted(y, b),
                                         !.reqs = n, !.lreqs = n]]
       /\ issued' = Count(y)
       /\ held' = IF y.res.err = "nil" /\ rev # "r1" THEN Granted(y, b) ELSE held
  /\ budget' = [budget EXCEPT ![t] = @ - 1]
  /\ UNCHANGED <<aside, rev, callers, session, bucket, pc, file, fname, crashed>>

\* GetUploadURL: the program keeps the last lease it is given
GetUploadURL(t) ==
  /\ Ready(t) /\ session.live
  /\ \E r \in Replies, b \in BucketIDs :
       LET x == Exchange(session.APIUrl, r) IN
       /\ call' = [call EXCEPT ![t] = [Returned("GetUploadURL", x) EXCEPT
                                         !.bkt = b, !.u = Granted(x, b),
                                         !.lreqs = IF x.sent THEN 1 ELSE 0]]
       /\ issued' = Count(x)
       /\ held' = IF x.res.err = "nil" /\ rev # "r1" THEN Granted(x, b) ELSE held
  /\ budget' = [budget EXCEPT ![t] = @ - 1]
  /\ UNCHANGED <<aside, rev, callers, session, bucket, pc, file, fname, crashed>>

\* url.Parse(fileName)
UrlParseOk(n) == n # "%zz"

\* the URL of a lease as http.NewRequest and Do see it: "" has no scheme
UrlOf(u) == IF u.UploadURL = 0 THEN "" ELSE "upload"

(* ----------------- r1: Session.UploadFile, lazy acquisition ------------- *)

\* entry: "if b.Upload == nil { if bucketID == "" { return error } ... }"
UploadFileLazy(t) ==
  /\ rev = "r1" /\ Ready(t) /\ session.live
  /\ \E b \in BucketIDs \cup {""} :
       IF session.Upload.nil
         THEN IF b = ""
                THEN /\ call' = [call EXCEPT ![t] =
                                   [IdleCall EXCEPT !.op = "UploadFile", !.err = "config"]]
                     /\ pc' = pc
                ELSE /\ call' = [call EXCEPT ![t] =
                                   [IdleCall EXCEPT !.op = "UploadFile", !.bkt = b]]
                     /\ pc' = [pc EXCEPT ![t] = "lease"]
         ELSE /\ call' = [call EXCEPT ![t] =
                            [IdleCall EXCEPT !.op = "UploadFile", !.bkt = b, !.had = TRUE,
                                             !.u = session.Upload]]
              /\ pc' = [pc EXCEPT ![t] = "url"]
  /\ budget' = [budget EXCEPT ![t] = @ - 1]
  /\ UNCHANGED <<aside, rev, callers, session, bucket, issued, held, file, fname, crashed>>

\* "b.Upload, err = b.GetUploadURL(bucketID)": the request and its result
UploadFileLazyLease(t) ==
  /\ rev = "r1" /\ In(t, "lease")
  /\ \E r \in Replies :
       LET x == Exchange(session.APIUrl, r) IN
       /\ call' = [call EXCEPT ![t].u = Granted(x, call[t].bkt), ![t].err = x.res.err,
                               ![t].failed = x.res.err # "nil", ![t].resp = Seen(x.resp),
                               ![t].reqs = @ + (IF x.sent THEN 1 ELSE 0),
                               ![t].lreqs = @ + (IF x.sent THEN 1 ELSE 0)]
       /\ issued' = Count(x)
  /\ pc' = [pc EXCEPT ![t] = "store"]
  /\ UNCHANGED <<aside, rev, callers, session, bucket, budget, held, file, fname, crashed>>

\* ... the assignment to b.Upload (nil when the request failed), then
\* "if err != nil { return nil, err }"
UploadFileLazyStore(t) ==
  /\ rev = "r1" /\ In(t, "store")
  /\ session' = [session EXCEPT !.Upload = call[t].u]
  /\ pc' = [pc EXCEPT ![t] = IF call[t].err # "nil" THEN "idle" ELSE "url"]
  /\ UNCHANGED <<aside, rev, callers, bucket, call, issued, budget, held, file, fname, crashed>>

\* the values a racing read of the cache can give: what memory holds now, or
\* the value this call already has in hand
Loads(t, cache) == {cache, call[t].u}

\* http.NewRequest("POST", b.Upload.UploadURL, data)
UploadFileLazyURL(t) ==
  /\ rev = "r1" /\ In(t, "url")
  /\ \E p \in Loads(t, session.Upload) :
       IF p.nil
         THEN crashed' = TRUE /\ UNCHANGED <<call, pc>>
         ELSE /\ call' = [call EXCEPT ![t].url = p.UploadURL, ![t].lfor = p.BucketID]
              /\ pc' = [pc EXCEPT ![t] = "token"]
              /\ UNCHANGED crashed
  /\ UNCHANGED <<aside, rev, callers, session, bucket, issued, budget, held, file, fname>>

\* the frame an upload returns with: the (url, token) it sent, if it sent
UploadDone(t, url, token, for, x) ==
  [call EXCEPT ![t].val = x.res.val, ![t].err = x.res.err,
               ![t].failed = x.res.err # "nil", ![t].u = NilLease, ![t].resp = Seen(x.resp),
               ![t].url = IF x.sent THEN url ELSE 0,
               ![t].token = IF x.sent THEN token ELSE 0,
               ![t].lfor = IF x.sent THEN for ELSE "",
               ![t].reqs = @ + (IF x.sent THEN 1 ELSE 0)]

\* req.Header.Add("Authorization", b.Upload.AuthToken) ... Do, decode, return
UploadFileLazySend(t) ==
  /\ rev = "r1" /\ In(t, "token")
  /\ \E p \in Loads(t, session.Upload), r \in Replies :
       IF p.nil
         THEN crashed' = TRUE /\ UNCHANGED <<call, pc>>
         ELSE LET x == Exchange(IF call[t].url = 0 THEN "" ELSE "upload", r) IN
              /\ call' = UploadDone(t, call[t].url, p.AuthToken, call[t].lfor, x)
              /\ pc' = [pc EXCEPT ![t] = "idle"]
              /\ UNCHANGED crashed
  /\ UNCHANGED <<aside, rev, callers, session, bucket, issued, budget, held, file, fname>>


(* ------------- r2: Session.UploadFile, lease set by the caller ---------- *)

\* the caller's "b.Upload = upload" after GetUploadURL, as the error text of
\* UploadFile asks for
SetUpload(t) ==
  /\ rev = "r2" /\ In(t, "idle") /\ ~held.nil /\ session.Upload # held
  /\ session' = [session EXCEPT !.Upload = held]
  /\ UNCHANGED <<aside, rev, callers, bucket, pc, call, issued, budget, held, file, fname, crashed>>

\* UploadFile without its nil check
UploadFileUnchecked(t) ==
  /\ rev = "r2" /\ Ready(t) /\ session.live
  /\ call' = [call EXCEPT ![t] =
                 [IdleCall EXCEPT !.op = "UploadFile", !.had = ~session.Upload.nil,
                                  !.u = session.Upload]]
  /\ pc' = [pc EXCEPT ![t] = "url"]
  /\ budget' = [budget EXCEPT ![t] = @ - 1]
  /\ UNCHANGED <<aside, rev, callers, session, bucket, issued, held, file, fname, crashed>>

\* entry: "if b.Upload == nil { return nil, errors.New(...) }"
UploadFile(t) ==
  /\ rev = "r2" /\ Ready(t) /\ session.live
  /\ IF session.Upload.nil
       THEN /\ call' = [call EXCEPT ![t] =
                          [IdleCall EXCEPT !.op = "UploadFile", !.err = "config"]]
            /\ pc' = pc
       ELSE /\ call' = [call EXCEPT ![t] =
                          [IdleCall EXCEPT !.op = "UploadFile", !.had = TRUE,
                                           !.u = session.Upload]]
            /\ pc' = [pc EXCEPT ![t] = "url"]
  /\ budget' = [budget EXCEPT ![t] = @ - 1]
  /\ UNCHANGED <<aside, rev, callers, session, bucket, issued, held, file, fname, crashed>>

\* http.NewRequest("POST", b.Upload.UploadURL, data), then url.Parse(fileName)
UploadFileURL(t) ==
  /\ rev = "r2" /\ In(t, "url")
  /\ \E p \in Loads(t, session.Upload), n \in FileNames :
       IF p.nil
         THEN crashed' = TRUE /\ UNCHANGED <<call, pc>>
         ELSE /\ IF UrlParseOk(n)
                   THEN /\ call' = [call EXCEPT ![t].url = p.UploadURL, ![t].lfor = p.BucketID]
                        /\ pc' = [pc EXCEPT ![t] = "token"]
                   ELSE /\ call' = [call EXCEPT ![t].err = "parse", ![t].u = NilLease]
                        /\ pc' = [pc EXCEPT ![t] = "idle"]
              /\ UNCHANGED crashed
  /\ UNCHANGED <<aside, rev, callers, session, bucket, issued, budget, held, file, fname>>

\* req.Header.Add("Authorization", b.Upload.AuthToken) ... Do, readResp, return
UploadFileSend(t) ==
  /\ rev = "r2" /\ In(t, "token")
  /\ \E p \in Loads(t, session.Upload), r \in Replies :
       IF p.nil
         THEN crashed' = TRUE /\ UNCHANGED <<call, pc>>
         ELSE LET x == Exchange(IF call[t].url = 0 THEN "" ELSE "upload", r) IN
              /\ call' = UploadDone(t, call[t].url, p.AuthToken, call[t].lfor, x)
              /\ pc' = [pc EXCEPT ![t] = "idle"]
              /\ UNCHANGED crashed
  /\ UNCHANGED <<aside, rev, callers, session, bucket, issued, budget, held, file, fname>>

(* ------------------ r3: Upload.UploadFile, Bucket.UploadFile ------------ *)

\* the *FileInfo a call of operation op returns: r3 sets conn in the Session
\* methods; Upload.UploadFile decodes into &FileInfo{}
FileInfoOf(op) ==
  [live |-> TRUE, conn |-> (rev = "r3" /\ op \notin {"Upload.UploadFile", "Bucket.UploadFile"})]

\* the program keeps the last handle it is given
Kept(old, x, new) == IF x.res.err = "nil" THEN new ELSE old

\* Upload.UploadFile on lease u: url.Parse(fileName), one request, readResp
UploadVia(u, n, r) ==
  IF ~UrlParseOk(n) THEN [sent |-> FALSE, resp |-> NoResponse, res |-> Res("nil", "parse")]
  ELSE Exchange(UrlOf(u), r)

\* Upload.UploadFile called on the lease the program holds
UploadUploadFile(t) ==
  /\ rev = "r3" /\ Ready(t) /\ ~held.nil
  /\ \E n \in FileNames, r \in Replies :
       LET x == UploadVia(held, n, r) IN
       /\ call' = [call EXCEPT ![t] =
                  [Returned("Upload.UploadFile", x) EXCEPT
                     !.had = TRUE,
                     !.url = IF x.sent THEN held.UploadURL ELSE 0,
                     !.lfor = IF x.sent THEN held.BucketID ELSE "",
                     !.token = IF x.sent THEN held.AuthToken ELSE 0]]
       /\ file' = Kept(file, x, FileInfoOf("Upload.UploadFile"))
  /\ budget' = [budget EXCEPT ![t] = @ - 1]
  /\ UNCHANGED <<aside, rev, callers, session, bucket, pc, issued, held, fname, crashed>>

\* Bucket.UploadFile asking for a lease on every call
BucketUploadFileAlwaysLease(t) ==
  /\ rev = "r3" /\ Ready(t) /\ bucket.live
  /\ call' = [call EXCEPT ![t] =
                 [IdleCall EXCEPT !.op = "Bucket.UploadFile", !.bkt = bucket.ID,
                                  !.had = ~bucket.upload.nil]]
  /\ pc' = [pc EXCEPT ![t] = "lease"]
  /\ budget' = [budget EXCEPT ![t] = @ - 1]
  /\ UNCHANGED <<aside, rev, callers, session, bucket, issued, held, file, fname, crashed>>

\* entry: "if b.upload == nil"
BucketUploadFile(t) ==
  /\ rev = "r3" /\ Ready(t) /\ bucket.live
  /\ IF bucket.upload.nil
       THEN /\ call' = [call EXCEPT ![t] =
                          [IdleCall EXCEPT !.op = "Bucket.UploadFile", !.bkt = bucket.ID]]
            /\ pc' = [pc EXCEPT ![t] = "lease"]
       ELSE /\ call' = [call EXCEPT ![t] =
                          [IdleCall EXCEPT !.op = "Bucket.UploadFile", !.bkt = bucket.ID,
                                           !.had = TRUE, !.u = bucket.upload]]
            /\ pc' = [pc EXCEPT ![t] = "upload"]
  /\ budget' = [budget EXCEPT ![t] = @ - 1]
  /\ UNCHANGED <<aside, rev, callers, session, bucket, issued, held, file, fname, crashed>>

\* "b.upload, err = b.conn.GetUploadURL(b.ID)": the request and its result
BucketUploadFileLease(t) ==
  /\ rev = "r3" /\ In(t, "lease")
  /\ \E r \in Replies :
       LET x == Exchange(session.APIUrl, r) IN
       /\ call' = [call EXCEPT ![t].u = Granted(x, bucket.ID), ![t].err = x.res.err,
                               ![t].failed = x.res.err # "nil", ![t].resp = Seen(x.resp),
                               ![t].reqs = @ + (IF x.sent THEN 1 ELSE 0),
                               ![t].lreqs = @ + (IF x.sent THEN 1 ELSE 0)]
       /\ issued' = Count(x)
  /\ pc' = [pc EXCEPT ![t] = "store"]
  /\ UNCHANGED <<aside, rev, callers, session, bucket, budget, held, file, fname, crashed>>

\* the lease assigned to a shadowing local ("upload, err := ..."), never to
\* b.upload
BucketUploadFileStoreShadowed(t) ==
  /\ rev = "r3" /\ In(t, "store")
  /\ pc' = [pc EXCEPT ![t] = IF call[t].err # "nil" THEN "idle" ELSE "upload"]
  /\ UNCHANGED <<aside, rev, callers, session, bucket, call, issued, budget, held, file, fname,
                 crashed>>

\* ... the assignment to b.upload (nil when the request failed), then
\* "if err != nil { return nil, err }"
BucketUploadFileStore(t) ==
  /\ rev = "r3" /\ In(t, "store")
  /\ bucket' = [bucket EXCEPT !.upload = call[t].u]
  /\ pc' = [pc EXCEPT ![t] = IF call[t].err # "nil" THEN "idle" ELSE "upload"]
  /\ UNCHANGED <<aside, rev, callers, session, call, issued, budget, held, file, fname, crashed>>

\* Bucket.UploadFile dropping its cached lease when the upload fails
BucketUploadFileSendDropping(t) ==
  /\ rev = "r3" /\ In(t, "upload")
  /\ \E p \in Loads(t, bucket.upload), n \in FileNames, r \in Replies :
       IF p.nil
         THEN crashed' = TRUE /\ UNCHANGED <<call, pc, file, bucket>>
         ELSE LET x == UploadVia(p, n, r) IN
              /\ call' = UploadDone(t, p.UploadURL, p.AuthToken, p.BucketID, x)
              /\ file' = Kept(file, x, FileInfoOf("Bucket.UploadFile"))
              /\ bucket' = IF x.res.err = "nil" THEN bucket
                           ELSE [bucket EXCEPT !.upload = NilLease]
              /\ pc' = [pc EXCEPT ![t] = "idle"]
              /\ UNCHANGED crashed
  /\ UNCHANGED <<aside, rev, callers, session, issued, budget, held, fname>>

\* "return b.upload.UploadFile(...)": the receiver is read from the cache; a
\* nil receiver dies at u.UploadURL
BucketUploadFileSend(t) ==
  /\ rev = "r3" /\ In(t, "upload")
  /\ \E p \in Loads(t, bucket.upload), n \in FileNames, r \in Replies :
       IF p.nil
         THEN crashed' = TRUE /\ UNCHANGED <<call, pc, file>>
         ELSE LET x == UploadVia(p, n, r) IN
              /\ call' = UploadDone(t, p.UploadURL, p.AuthToken, p.BucketID, x)
              /\ file' = Kept(file, x, FileInfoOf("Bucket.UploadFile"))
              /\ pc' = [pc EXCEPT ![t] = "idle"]
              /\ UNCHANGED crashed
  /\ UNCHANGED <<aside, rev, callers, session, bucket, issued, budget, held, fname>>

(* ----------------------- r2, r3: the other Session methods ------------- *)

UpdateBucket(t) ==
  /\ rev # "r1" /\ Ready(t) /\ session.live
  /\ \E r \in Replies : SessionCall(t, "UpdateBucket", Exchange(session.APIUrl, r))
  /\ UNCHANGED <<session, bucket, held, file, fname>>

DeleteFileVersion(t) ==
  /\ rev # "r1" /\ Ready(t) /\ session.live
  /\ \E r \in Replies :
       LET x == Exchange(session.APIUrl, r) IN
       /\ SessionCall(t, "DeleteFileVersion", x)
       /\ file' = Kept(file, x, FileInfoOf("DeleteFileVersion"))
  /\ UNCHANGED <<session, bucket, held, fname>>

ListBuckets(t) ==
  /\ rev # "r1" /\ Ready(t) /\ session.live
  /\ \E r \in Replies : SessionCall(t, "ListBuckets", Exchange(session.APIUrl, r))
  /\ UNCHANGED <<session, bucket, held, file, fname>>

\* the FileName entries of a listing, and of HideFile: r3 sets conn
FileNameOf == [live |-> TRUE, conn |-> (rev = "r3")]

ListFileNames(t) ==
  /\ rev # "r1" /\ Ready(t) /\ session.live
  /\ \E r \in Replies :
       LET x == Exchange(session.APIUrl, r) IN
       /\ SessionCall(t, "ListFileNames", x)
       /\ fname' = Kept(fname, x, FileNameOf)
  /\ UNCHANGED <<session, bucket, held, file>>

ListFileVersions(t) ==
  /\ rev # "r1" /\ Ready(t) /\ session.live
  /\ \E r \in Replies :
       LET x == Exchange(session.APIUrl, r) IN
       /\ SessionCall(t, "ListFileVersions", x)
       /\ fname' = Kept(fname, x, FileNameOf)
  /\ UNCHANGED <<session, bucket, held, file>>

GetFileInfo(t) ==
  /\ rev # "r1" /\ Ready(t) /\ session.live
  /\ \E r \in Replies :
       LET x == Exchange(session.APIUrl, r) IN
       /\ SessionCall(t, "GetFileInfo", x)
       /\ file' = Kept(file, x, FileInfoOf("GetFileInfo"))
  /\ UNCHANGED <<session, bucket, held, fname>>

HideFile(t) ==
  /\ rev # "r1" /\ Ready(t) /\ session.live
  /\ \E r \in Replies :
       LET x == Exchange(session.APIUrl, r) IN
       /\ SessionCall(t, "HideFile", x)
       /\ fname' = Kept(fname, x, FileNameOf)
  /\ UNCHANGED <<session, bucket, held, file>>

(* ------------------------------- downloads ----------------------------- *)

\* the headers of a 200 download response, as far as readHeaderFileInfo
\* looks: Content-Length parses, X-Bz-File-Name unescapes, and whether an
\* X-Bz-Info- header is present
Headers == [length : BOOLEAN, name : BOOLEAN, info : BOOLEAN]

\* r3: FileInfo{conn: b} has a nil Info map, which the first X-Bz-Info-
\* header writes to
readHeaderFileInfo(h) ==
  IF ~h.length THEN Res("nil", "decode")
  ELSE IF ~h.name THEN Res("nil", "decode")
  ELSE IF h.info THEN Res("nil", "panic")
  ELSE Res("value", "nil")

\* a download that copies the body into the sink before it looks at the status
DownloadCopyFirst(r, h) ==
  LET d == Do(session.DownloadURL, r) IN
  IF d.resp.fail
    THEN [sent |-> d.sent, resp |-> d.resp, copied |-> FALSE, res |-> Res("nil", "transport")]
  ELSE IF d.resp.body = "broken"
    THEN [sent |-> TRUE, resp |-> d.resp, copied |-> TRUE, res |-> Res("nil", "transport")]
  ELSE IF d.resp.status # GoodStatus
    THEN [sent |-> TRUE, resp |-> d.resp, copied |-> d.resp.body # "empty",
          res |-> Res("nil", "decode")]
  ELSE [sent |-> TRUE, resp |-> d.resp, copied |-> d.resp.body # "empty",
        res |-> IF rev = "r3" THEN readHeaderFileInfo(h) ELSE Res("value", "nil")]

\* a download after its request was built: Do, the status check, io.Copy
\* into the sink, and the result from the headers
Download(r, h) ==
  LET d == Do(session.DownloadURL, r) IN
  IF d.resp.fail
    THEN [sent |-> d.sent, resp |-> d.resp, copied |-> FALSE, res |-> Res("nil", "transport")]
  ELSE IF d.resp.status # GoodStatus
    THEN [sent |-> TRUE, resp |-> d.resp, copied |-> FALSE,
          res |-> Res("nil", readResp(d.resp))]
  ELSE IF d.resp.body = "broken"
    THEN [sent |-> TRUE, resp |-> d.resp, copied |-> TRUE, res |-> Res("nil", "transport")]
  ELSE [sent |-> TRUE, resp |-> d.resp, copied |-> d.resp.body # "empty",
        res |-> IF rev = "r3" THEN readHeaderFileInfo(h) ELSE Res("value", "nil")]

\* the frame and the effects of a download that ended as d
Downloaded(t, op, d) ==
  /\ call' = [call EXCEPT ![t] = [Returned(op, d) EXCEPT !.copied = d.copied]]
  /\ crashed' = (d.res.err = "panic")
  /\ file' = IF rev = "r3" THEN Kept(file, d, FileInfoOf(op)) ELSE file
  /\ budget' = [budget EXCEPT ![t] = @ - 1]
  /\ UNCHANGED <<aside, rev, callers, session, bucket, pc, issued, held, fname>>

DownloadFileByID(t) ==
  /\ rev # "r1" /\ Ready(t) /\ session.live
  /\ \E r \in Replies, h \in Headers : Downloaded(t, "DownloadFileByID", Download(r, h))

\* url.Parse(fileName) comes first
DownloadFileByName(t) ==
  /\ rev # "r1" /\ Ready(t) /\ session.live
  /\ \E r \in Replies, h \in Headers, n \in FileNames :
       Downloaded(t, "DownloadFileByName",
                  IF UrlParseOk(n) THEN Download(r, h)
                  ELSE [sent |-> FALSE, resp |-> NoResponse, copied |-> FALSE, res |-> Res("nil", "parse")])

(* ------------------------- r3: convenience methods --------------------- *)

\* Bucket.Delete returns the error alone
BucketDelete(t) ==
  /\ rev = "r3" /\ Ready(t) /\ bucket.live
  /\ \E r \in Replies :
       LET x == Exchange(session.APIUrl, r) IN
       SessionCall(t, "Bucket.Delete", [x EXCEPT !.res.val = "nil"])
  /\ UNCHANGED <<session, bucket, held, file, fname>>

\* the bucket b2_update_bucket answers with: the bucket of that id as the
\* service has it, with the type it was asked to take
UpdatedBucket(b, ty) ==
  [AccountID |-> session.AccountID, ID |-> b.ID, Name |-> b.Name, Type |-> ty]

\* Bucket.Update writing the type it asked for before it knows the outcome
BucketUpdateOptimistic(t) ==
  /\ rev = "r3" /\ Ready(t) /\ bucket.live
  /\ \E r \in Replies, ty \in BucketTypes :
       LET x == Exchange(session.APIUrl, r) IN
       /\ call' = [call EXCEPT ![t] =
                      [Returned("Bucket.Update", [x EXCEPT !.res.val = "nil"])
                         EXCEPT !.bucketType = ty]]
       /\ bucket' = [bucket EXCEPT !.Type = ty]
  /\ budget' = [budget EXCEPT ![t] = @ - 1]
  /\ UNCHANGED <<aside, rev, callers, pc, issued, crashed, session, held, file, fname>>

\* Bucket.Update returns the error alone and, without one, copies the four
\* fields of the decoded bucket into the handle
BucketUpdate(t) ==
  /\ rev = "r3" /\ Ready(t) /\ bucket.live
  /\ \E r \in Replies, ty \in BucketTypes :
       LET x == Exchange(session.APIUrl, r)
           got == UpdatedBucket(bucket, ty) IN
       /\ call' = [call EXCEPT ![t] =
                      [Returned("Bucket.Update", [x EXCEPT !.res.val = "nil"])
                         EXCEPT !.bucketType = ty]]
       /\ bucket' = IF x.res.err # "nil" THEN bucket
                    ELSE [bucket EXCEPT !.AccountID = got.AccountID, !.ID = got.ID,
                                        !.Name = got.Name, !.Type = got.Type]
  /\ budget' = [budget EXCEPT ![t] = @ - 1]
  /\ UNCHANGED <<aside, rev, callers, pc, issued, crashed, session, held, file, fname>>

BucketListFileNames(t) ==
  /\ rev = "r3" /\ Ready(t) /\ bucket.live
  /\ \E r \in Replies :
       LET x == Exchange(session.APIUrl, r) IN
       /\ SessionCall(t, "Bucket.ListFileNames", x)
       /\ fname' = Kept(fname, x, FileNameOf)
  /\ UNCHANGED <<session, bucket, held, file>>

BucketListFileVersions(t) ==
  /\ rev = "r3" /\ Ready(t) /\ bucket.live
  /\ \E r \in Replies :
       LET x == Exchange(session.APIUrl, r) IN
       /\ SessionCall(t, "Bucket.ListFileVersions", x)
       /\ fname' = Kept(fname, x, FileNameOf)
  /\ UNCHANGED <<session, bucket, held, file>>

BucketHideFile(t) ==
  /\ rev = "r3" /\ Ready(t) /\ bucket.live
  /\ \E r \in Replies :
       LET x == Exchange(session.APIUrl, r) IN
       /\ SessionCall(t, "Bucket.HideFile", x)
       /\ fname' = Kept(fname, x, FileNameOf)
  /\ UNCHANGED <<session, bucket, held, file>>

\* a method called through a nil conn dies when it reads a field of the Session
Died(t, op) ==
  /\ crashed' = TRUE
  /\ call' = [call EXCEPT ![t] = [IdleCall EXCEPT !.op = op, !.err = "panic"]]
  /\ budget' = [budget EXCEPT ![t] = @ - 1]
  /\ UNCHANGED <<aside, rev, callers, session, bucket, pc, issued, held, file, fname>>

FileInfoDownload(t) ==
  /\ rev = "r3" /\ Ready(t) /\ file.live
  /\ IF file.conn
       THEN \E r \in Replies, h \in Headers :
              Downloaded(t, "FileInfo.Download", Download(r, h))
       ELSE Died(t, "FileInfo.Download")

FileInfoDelete(t) ==
  /\ rev = "r3" /\ Ready(t) /\ file.live
  /\ IF file.conn
       THEN /\ \E r \in Replies :
                 LET x == Exchange(session.APIUrl, r) IN
                 /\ SessionCall(t, "FileInfo.Delete", x)
                 /\ file' = Kept(file, x, FileInfoOf("FileInfo.Delete"))
            /\ UNCHANGED <<session, bucket, held, fname>>
       ELSE Died(t, "FileInfo.Delete")

FileInfoHide(t) ==
  /\ rev = "r3" /\ Ready(t) /\ file.live
  /\ IF file.conn
       THEN /\ \E r \in Replies :
                 LET x == Exchange(session.APIUrl, r) IN
                 /\ SessionCall(t, "FileInfo.Hide", x)
                 /\ fname' = Kept(fname, x, FileNameOf)
            /\ UNCHANGED <<session, bucket, held, file>>
       ELSE Died(t, "FileInfo.Hide")

FileNameGetFileInfo(t) ==
  /\ rev = "r3" /\ Ready(t) /\ fname.live
  /\ IF fname.conn
       THEN /\ \E r \in Replies :
                 LET x == Exchange(session.APIUrl, r) IN
                 /\ SessionCall(t, "FileName.GetFileInfo", x)
                 /\ file' = Kept(file, x, FileInfoOf("FileName.GetFileInfo"))
            /\ UNCHANGED <<session, bucket, held, fname>>
       ELSE Died(t, "FileName.GetFileInfo")

(* --------------------------- texts and headers ------------------------- *)

\* a text is a sequence of characters; a byte that is no character of the
\* alphabets used here is written "<hh>"
Digits == <<"0", "1", "2", "3", "4", "5", "6", "7", "8", "9">>
IsDigit(c) == \E d \in 1..10 : Digits[d] = c
DigitOf(c) == (CHOOSE d \in 1..10 : Digits[d] = c) - 1

RECURSIVE Magnitude(_)
Magnitude(s) ==
  IF s = <<>> THEN 0
  ELSE Magnitude(SubSeq(s, 1, Len(s) - 1)) * 10 + DigitOf(s[Len(s)])

\* ParseInt taking a text it cannot read for 0
ParseIntOrZero(s) ==
  LET signed == s # <<>> /\ s[1] \in {"+", "-"}
      digits == IF signed THEN Tail(s) ELSE s IN
  IF digits = <<>> \/ \E i \in 1..Len(digits) : ~IsDigit(digits[i])
    THEN [ok |-> TRUE, n |-> 0]
    ELSE [ok |-> TRUE,
          n |-> IF signed /\ s[1] = "-" THEN 0 - Magnitude(digits) ELSE Magnitude(digits)]

\* strconv.ParseInt(s, 10, 64): an optional sign, then one or more decimal
\* digits (a text within the bounds used here cannot leave the int64 range)
ParseInt(s) ==
  LET signed == s # <<>> /\ s[1] \in {"+", "-"}
      digits == IF signed THEN Tail(s) ELSE s IN
  IF digits = <<>> \/ \E i \in 1..Len(digits) : ~IsDigit(digits[i])
    THEN [ok |-> FALSE, n |-> 0]
    ELSE [ok |-> TRUE,
          n |-> IF signed /\ s[1] = "-" THEN 0 - Magnitude(digits) ELSE Magnitude(digits)]

HexDigits == <<"0", "1", "2", "3", "4", "5", "6", "7", "8", "9", "a", "b", "c", "d", "e", "f">>
UpperHex == <<"0", "1", "2", "3", "4", "5", "6", "7", "8", "9", "A", "B", "C", "D", "E", "F">>
ishex(c) == \E d \in 1..16 : HexDigits[d] = c \/ UpperHex[d] = c
unhex(c) == (CHOOSE d \in 1..16 : HexDigits[d] = c \/ UpperHex[d] = c) - 1

\* the characters of the alphabets used here, by their byte
Ascii == [n \in {32, 35, 37, 43, 47, 48, 50, 63, 97} |->
            CASE n = 32 -> " " [] n = 35 -> "#" [] n = 37 -> "%" [] n = 43 -> "+"
              [] n = 47 -> "/" [] n = 48 -> "0" [] n = 50 -> "2" [] n = 63 -> "?"
              [] n = 97 -> "a"]
\* the character of byte n
Chr(n) ==
  IF n \in DOMAIN Ascii THEN Ascii[n]
  ELSE "<" \o HexDigits[(n \div 16) + 1] \o HexDigits[(n % 16) + 1] \o ">"

\* url.QueryUnescape: "+" is a space, "%hh" is the byte hh, a "%" without
\* two hex digits is an error
RECURSIVE QueryUnescape(_)
QueryUnescape(s) ==
  IF s = <<>> THEN [ok |-> TRUE, s |-> <<>>]
  ELSE IF s[1] = "%"
    THEN IF Len(s) < 3 \/ ~ishex(s[2]) \/ ~ishex(s[3])
           THEN [ok |-> FALSE, s |-> <<>>]
           ELSE LET r == QueryUnescape(SubSeq(s, 4, Len(s))) IN
                [ok |-> r.ok,
                 s |-> IF r.ok THEN <<Chr(16 * unhex(s[2]) + unhex(s[3]))>> \o r.s ELSE <<>>]
    ELSE LET r == QueryUnescape(Tail(s)) IN
         [ok |-> r.ok,
          s |-> IF r.ok THEN <<IF s[1] = "+" THEN " " ELSE s[1]>> \o r.s ELSE <<>>]

HeaderInfoPrefix == "X-Bz-Info-"

\* a header name is its prefix and the rest; strings.HasPrefix sees the first
HasPrefix(name, prefix) == name # <<>> /\ name[1] = prefix
ContentLength == <<"Content-Length">>
XBzFileName == <<"X-Bz-File-Name">>
\* the keys of the custom information a file can carry
InfoKeys == {"src_last_modified_millis", "color"}
InfoHeaders == {<<HeaderInfoPrefix, k>> : k \in InfoKeys}

\* the longest Content-Length text
MaxLengthText == 2
LengthTexts == UNION {[1..n -> {"0", "7", "x", "-"}] : n \in 0..MaxLengthText}
NameTexts == {<<"a">>, <<"a", "+", "a">>, <<"%", "2", "0">>, <<"%">>}

\* http.Header: the values of each header that is present, in order.  The
\* service may leave Content-Length out and sends any of the info headers.
NoHeader == [k \in {} |-> <<>>]
HeaderSets ==
  {(IF l = <<>> THEN NoHeader ELSE ContentLength :> l) @@ (XBzFileName :> <<n>>) @@ i :
     l \in {<<>>} \cup {<<t>> : t \in LengthTexts},
     n \in NameTexts,
     i \in UNION {[D -> {<<"v">>, <<"v", "w">>}] : D \in SUBSET InfoHeaders}}

\* header.Get(k): the first value of header k, "" when it is absent
Get(h, k) == IF k \in DOMAIN h THEN h[k][1] ELSE <<>>

\* FileInfo.Info: a map, nil until it is made
NilMap == [nil |-> TRUE, entries |-> {}]

NoInfo == [read |-> FALSE, val |-> "nil", err |-> "nil", Length |-> 0, Name |-> <<>>,
           Info |-> NilMap]

\* readHeaderFileInfo on the headers in full: the FileInfo it returns has the
\* parsed length, the unescaped name and the Info map no statement has made
FileInfoFrom(h) ==
  LET n == ParseInt(Get(h, ContentLength))
      f == QueryUnescape(Get(h, XBzFileName))
      r == readHeaderFileInfo([length |-> n.ok, name |-> f.ok,
                               info |-> \E k \in DOMAIN h : HasPrefix(k, HeaderInfoPrefix)]) IN
  [read |-> TRUE, val |-> r.val, err |-> r.err,
   Length |-> IF r.err = "nil" THEN n.n ELSE 0,
   Name |-> IF r.err = "nil" THEN f.s ELSE <<>>,
   Info |-> NilMap]

\* a download reads the headers of its 200 response
DownloadRead ==
  /\ ~crashed /\ ~info.read /\ header # NoHeader
  /\ info' = FileInfoFrom(header)
  /\ crashed' = (info'.err = "panic")
  /\ UNCHANGED <<rev, callers, session, bucket, pc, call, issued, budget, held, file, fname,
                 header, store, page, trip>>

(* ------------------------------- listings ------------------------------ *)

\* the strings a listing deals in (file names, file ids, "" for none), in
\* the byte order the service sorts by
Sorted == <<"", "1", "2", "3", "4", "a", "b", "c">>
Rank(s) == CHOOSE i \in 1..Len(Sorted) : Sorted[i] = s

\* the file versions a bucket can hold, as b2_list_file_versions lists
\* them: by name, and newest first within a name
AllVersions == <<[name |-> "a", id |-> "4"], [name |-> "a", id |-> "2"],
                 [name |-> "b", id |-> "3"], [name |-> "c", id |-> "1"]>>
Buckets ==
  {SelectSeq(AllVersions, LAMBDA v : v \in S) :
     S \in SUBSET {AllVersions[i] : i \in 1..Len(AllVersions)}}
\* the current file names of bucket st, as b2_list_file_names lists them
NamesIn(st) ==
  SelectSeq(<<"a", "b", "c">>, LAMBDA n : \E i \in 1..Len(st) : st[i].name = n)

\* the largest maxFileCount a caller passes
MaxFileCount == 3

First(s, n) == SubSeq(s, 1, IF n < Len(s) THEN n ELSE Len(s))

\* encoding/json on a string, either way: bytes that are no UTF-8 become
\* the replacement character, every other string is kept as it is
Utf8(s) == IF s = "<ff>" THEN "<fffd>" ELSE s

\* the service's b2_list_file_names: the names from startFileName on (an
\* omitted field is the empty string, an omitted count is the default),
\* and the name to resume with
b2_list_file_names(st, req) ==
  LET rest == SelectSeq(NamesIn(st), LAMBDA n : Rank(n) >= Rank(req.startFileName))
      max == IF req.maxFileCount = 0 THEN 100 ELSE req.maxFileCount IN
  [status |-> GoodStatus, files |-> First(rest, max),
   nextFileName |-> IF Len(rest) > max THEN rest[max + 1] ELSE "", nextFileId |-> ""]

\* the service's b2_list_file_versions: the versions from (startFileName,
\* startFileId) on; a startFileId that is no file id is a bad request
b2_list_file_versions(st, req) ==
  LET after == {i \in 1..Len(st) :
                  \/ Rank(st[i].name) > Rank(req.startFileName)
                  \/ /\ st[i].name = req.startFileName
                     /\ \/ req.startFileId = ""
                        \/ \E j \in 1..i : st[j] = [name |-> req.startFileName,
                                                    id |-> req.startFileId]}
      rest == SelectSeq(st, LAMBDA v : \E i \in after : st[i] = v)
      max == IF req.maxFileCount = 0 THEN 100 ELSE req.maxFileCount IN
  IF req.startFileId # "" /\ \A i \in 1..Len(AllVersions) : AllVersions[i].id # req.startFileId
    THEN [status |-> 400, files |-> <<>>, nextFileName |-> "", nextFileId |-> ""]
    ELSE [status |-> GoodStatus, files |-> First(rest, max),
          nextFileName |-> IF Len(rest) > max THEN rest[max + 1].name ELSE "",
          nextFileId |-> IF Len(rest) > max THEN rest[max + 1].id ELSE ""]

\* ListFileNames returning no cursor
ListFileNamesCallOnce(st, startFileName, maxFileCount) ==
  LET req == [startFileName |-> Utf8(startFileName), startFileId |-> "",
              maxFileCount |-> maxFileCount]
      list == b2_list_file_names(st, req) IN
  [req |-> req, list |-> list, err |-> "nil", results |-> <<list.files, "", "">>]

\* ListFileNames(bucketID, startFileName, maxFileCount): the request it
\* marshals (omitempty leaves out "" and 0), and its results in order
ListFileNamesCall(st, startFileName, maxFileCount) ==
  LET req == [startFileName |-> Utf8(startFileName), startFileId |-> "",
              maxFileCount |-> maxFileCount]
      list == b2_list_file_names(st, req) IN
  [req |-> req, list |-> list, err |-> "nil",
   results |-> <<list.files, Utf8(list.nextFileName), "">>]

\* ListFileVersions(bucketID, startFileName, startFileID, maxFileCount):
\* "return list.Files, list.NextFileID, list.NextFileName, nil"
ListFileVersionsCall(st, startFileName, startFileID, maxFileCount) ==
  LET req == [startFileName |-> Utf8(startFileName), startFileId |-> Utf8(startFileID),
              maxFileCount |-> maxFileCount]
      list == b2_list_file_versions(st, req) IN
  [req |-> req, list |-> list,
   err |-> IF list.status = GoodStatus THEN "nil" ELSE "api",
   results |-> IF list.status = GoodStatus
                 THEN <<list.files, Utf8(list.nextFileId), Utf8(list.nextFileName)>>
                 ELSE <<<<>>, "", "">>]

\* the listing loop of a caller: what it passes next (start), what it has
\* collected (listed), the request the service saw last (req) and the
\* cursor the service answered with last (next)
NoPage == [kind |-> "none", max |-> 0, start |-> <<"", "">>, listed |-> <<>>,
           req |-> [startFileName |-> "", startFileId |-> "", maxFileCount |-> 0],
           next |-> <<"", "">>, calls |-> 0, done |-> TRUE, err |-> "nil"]
NoStore == <<>>

\* one turn of the loop, given what the call returned
Paged(r) ==
  [page EXCEPT !.listed = @ \o r.results[1],
               !.start = <<r.results[2], r.results[3]>>,
               !.req = r.req,
               !.next = <<r.list.nextFileName, r.list.nextFileId>>,
               !.calls = @ + 1,
               !.err = r.err,
               !.done = r.err # "nil" \/ (r.results[2] = "" /\ r.results[3] = "")]

\* names, next := s.ListFileNames(id, next, max), until next is empty
ListFileNamesPage ==
  /\ page.kind = "names" /\ ~page.done
  /\ page' = Paged(ListFileNamesCall(store, page.start[1], page.max))
  /\ UNCHANGED <<rev, callers, session, bucket, pc, call, issued, budget, held, file, fname,
                 crashed, header, info, store, trip>>

\* files, name, id := s.ListFileVersions(bucket, name, id, max), the second
\* and third result passed on as the second and third argument
ListFileVersionsPage ==
  /\ page.kind = "versions" /\ ~page.done
  /\ page' = Paged(ListFileVersionsCall(store, page.start[1], page.start[2], page.max))
  /\ UNCHANGED <<rev, callers, session, bucket, pc, call, issued, budget, held, file, fname,
                 crashed, header, info, store, trip>>

(* ------------------------------ file names ----------------------------- *)

\* the byte of a character
Ord(c) == CHOOSE n \in 0..255 : Chr(n) = c
isAlnum(n) == n \in (48..57) \cup (65..90) \cup (97..122)

\* net/url shouldEscape, for the part of a URL a text is written to
shouldEscape(n, mode) ==
  IF isAlnum(n) THEN FALSE
  ELSE IF mode = "encodeHost" /\ n \in {33, 34, 36, 38, 39, 40, 41, 42, 43, 44, 58, 59, 60,
                                         61, 62, 91, 93} THEN FALSE
  ELSE IF n \in {45, 46, 95, 126} THEN FALSE
  ELSE IF n \in {36, 38, 43, 44, 47, 58, 59, 61, 63, 64}
    THEN (mode = "encodePath" /\ n = 63) \/ mode = "encodeHost"
  ELSE IF mode = "encodeFragment" /\ n \in {33, 40, 41, 42} THEN FALSE
  ELSE TRUE

\* net/url escape: "%XX" for every character that shouldEscape
RECURSIVE escape(_, _)
escape(s, mode) ==
  IF s = <<>> THEN <<>>
  ELSE LET n == Ord(s[1]) IN
       (IF shouldEscape(n, mode)
          THEN <<"%", UpperHex[(n \div 16) + 1], UpperHex[(n % 16) + 1]>>
          ELSE <<s[1]>>) \o escape(Tail(s), mode)

\* net/url unescape outside a query: "%hh" is the byte hh, "+" stays; an
\* error for a "%" without two hex digits, and in a host for a character a
\* host cannot hold
RECURSIVE unescape(_, _)
unescape(s, mode) ==
  IF s = <<>> THEN [ok |-> TRUE, s |-> <<>>]
  ELSE IF s[1] = "%"
    THEN IF Len(s) < 3 \/ ~ishex(s[2]) \/ ~ishex(s[3])
              \/ (mode = "encodeHost" /\ unhex(s[2]) < 8 /\ SubSeq(s, 1, 3) # <<"%", "2", "5">>)
           THEN [ok |-> FALSE, s |-> <<>>]
           ELSE LET r == unescape(SubSeq(s, 4, Len(s)), mode) IN
                [ok |-> r.ok,
                 s |-> IF r.ok THEN <<Chr(16 * unhex(s[2]) + unhex(s[3]))>> \o r.s ELSE <<>>]
    ELSE IF mode = "encodeHost" /\ Ord(s[1]) < 128 /\ shouldEscape(Ord(s[1]), "encodeHost")
           THEN [ok |-> FALSE, s |-> <<>>]
           ELSE LET r == unescape(Tail(s), mode) IN
                [ok |-> r.ok, s |-> IF r.ok THEN <<s[1]>> \o r.s ELSE <<>>]

\* net/url validEncoded: s is a possible encoding for the part
validEncoded(s, mode) ==
  \A i \in 1..Len(s) :
    \/ Ord(s[i]) \in {33, 36, 37, 38, 39, 40, 41, 42, 43, 44, 58, 59, 61, 64, 91, 93}
    \/ ~shouldEscape(Ord(s[i]), mode)

\* strings.Index: where c first is in s, 0 when it is not
Index(s, c) == IF \E i \in 1..Len(s) : s[i] = c
                 THEN CHOOSE i \in 1..Len(s) : s[i] = c /\ \A j \in 1..(i - 1) : s[j] # c
                 ELSE 0
\* strings.Cut: s before and after the first c
Cut(s, c) ==
  LET i == Index(s, c) IN
  IF i = 0 THEN [before |-> s, after |-> <<>>]
  ELSE [before |-> SubSeq(s, 1, i - 1), after |-> SubSeq(s, i + 1, Len(s))]
\* strings.Count
CountOf(s, c) == Cardinality({i \in 1..Len(s) : s[i] = c})

\* url.Parse of a text without ":" and "@" (no scheme, no user): the
\* fragment after "#", the query after "?", a host after a leading "//"
\* that is not "///", and the path
Parse(rawURL) ==
  LET hash == Cut(rawURL, "#")
      u == hash.before
      ForceQuery == u # <<>> /\ u[Len(u)] = "?" /\ CountOf(u, "?") = 1
      query == IF ForceQuery THEN [before |-> SubSeq(u, 1, Len(u) - 1), after |-> <<>>]
               ELSE Cut(u, "?")
      hasHost == /\ Len(query.before) >= 2 /\ SubSeq(query.before, 1, 2) = <<"/", "/">>
                 /\ ~(Len(query.before) >= 3 /\ query.before[3] = "/")
      authority == IF hasHost THEN SubSeq(query.before, 3, Len(query.before)) ELSE <<>>
      slash == Index(authority, "/")
      host == unescape(IF slash = 0 THEN authority ELSE SubSeq(authority, 1, slash - 1),
                       "encodeHost")
      rest == IF ~hasHost THEN query.before
              ELSE IF slash = 0 THEN <<>> ELSE SubSeq(authority, slash, Len(authority))
      path == unescape(rest, "encodePath")
      frag == unescape(hash.after, "encodeFragment") IN
  IF ~host.ok \/ ~path.ok \/ ~frag.ok
    THEN [ok |-> FALSE, Host |-> <<>>, Path |-> <<>>, RawPath |-> <<>>, ForceQuery |-> FALSE,
          RawQuery |-> <<>>, Fragment |-> <<>>, RawFragment |-> <<>>]
    ELSE [ok |-> TRUE, Host |-> host.s,
          Path |-> path.s,
          RawPath |-> IF escape(path.s, "encodePath") = rest THEN <<>> ELSE rest,
          ForceQuery |-> ForceQuery, RawQuery |-> query.after,
          Fragment |-> frag.s,
          RawFragment |-> IF escape(frag.s, "encodeFragment") = hash.after THEN <<>>
                          ELSE hash.after]

\* URL.EscapedPath: RawPath when it is a valid encoding of Path
EscapedPath(u) ==
  IF u.RawPath # <<>> /\ validEncoded(u.RawPath, "encodePath")
       /\ unescape(u.RawPath, "encodePath") = [ok |-> TRUE, s |-> u.Path]
    THEN u.RawPath
    ELSE escape(u.Path, "encodePath")

\* URL.EscapedFragment: RawFragment when it is a valid encoding of Fragment
EscapedFragment(u) ==
  IF u.RawFragment # <<>> /\ validEncoded(u.RawFragment, "encodeFragment")
       /\ unescape(u.RawFragment, "encodeFragment") = [ok |-> TRUE, s |-> u.Fragment]
    THEN u.RawFragment
    ELSE escape(u.Fragment, "encodeFragment")

\* URL.String of a URL without scheme, opaque part and user
String(u) ==
  (IF u.Host # <<>> THEN <<"/", "/">> \o escape(u.Host, "encodeHost") ELSE <<>>)
  \o EscapedPath(u)
  \o (IF u.ForceQuery \/ u.RawQuery # <<>> THEN <<"?">> \o u.RawQuery ELSE <<>>)
  \o (IF u.Fragment # <<>> THEN <<"#">> \o EscapedFragment(u) ELSE <<>>)

\* the longest file name
MaxNameLen == 3
NameAlphabet == {"a", "/", " ", "+", "%", "?", "#", "2", "0"}
UploadNames == UNION {[1..n -> NameAlphabet] : n \in 1..MaxNameLen}

\* the X-Bz-File-Name header of an upload of fileName: the name as it is in
\* r1, url.Parse(fileName).String() in r2 and r3, where a name that does
\* not parse fails the upload before a request is made
FileNameHeader(fileName) ==
  IF rev = "r1" THEN [ok |-> TRUE, s |-> fileName]
  ELSE LET fileEncoded == Parse(fileName) IN
       IF fileEncoded.ok THEN [ok |-> TRUE, s |-> String(fileEncoded)]
       ELSE [ok |-> FALSE, s |-> <<>>]

\* no file name is on its way
NoTrip == [stage |-> "idle", fileName |-> <<>>, sent |-> <<>>]

\* an upload builds its request for trip.fileName
UploadName ==
  /\ ~crashed /\ trip.stage = "named"
  /\ LET h == FileNameHeader(trip.fileName) IN
     trip' = [trip EXCEPT !.stage = IF h.ok THEN "sent" ELSE "failed", !.sent = h.s]
  /\ UNCHANGED <<rev, callers, session, bucket, pc, call, issued, budget, held, file, fname,
                 crashed, header, info, store, page>>

\* a download of the file receives a 200 response whose X-Bz-File-Name is the
\* value the upload sent
DownloadName ==
  /\ ~crashed /\ trip.stage = "sent" /\ rev = "r3"
  /\ header' = (ContentLength :> << <<"0">> >>) @@ (XBzFileName :> <<trip.sent>>)
  /\ trip' = [trip EXCEPT !.stage = "served"]
  /\ UNCHANGED <<rev, callers, session, bucket, pc, call, issued, budget, held, file, fname,
                 crashed, info, store, page>>

(* --------------------------- specification ----------------------------- *)

\* the Sessions NewB2 can have returned without error: r1 returns a B2 with
\* no field set when the 200 response has an empty body
Sessions(rv) == IF rv = "r1" THEN {NewSession, ZeroSession} ELSE {NewSession}

\* the Bucket handle an r3 program got from CreateBucket
Handles(rv, s) ==
  IF rv = "r3"
    THEN {[live |-> TRUE, AccountID |-> s.AccountID, ID |-> "b1", Name |-> "alpha",
           Type |-> "allPrivate", conn |-> TRUE, upload |-> NilLease]}
    ELSE {NoBucket}

\* the program has authenticated and, in r3, created a bucket
Start(n, m) ==
  /\ rev \in Revisions
  /\ session \in Sessions(rev)
  /\ bucket \in Handles(rev, session)
  /\ budget = [t \in Threads |-> IF t = 1 THEN n ELSE m]
  /\ pc = [t \in Threads |-> "idle"]
  /\ call = [t \in Threads |-> IdleCall]
  /\ issued = 0
  /\ held = NilLease
  /\ file = NoHandle
  /\ fname = NoHandle
  /\ crashed = FALSE

\* no download response is being read
NothingRead == header = NoHeader /\ info = NoInfo

\* no listing loop is running
NothingListed == store = NoStore /\ page = NoPage

\* no file name is on its way
NothingNamed == trip = NoTrip

\* a program with one goroutine
Init == callers = {1} /\ Start(MaxCalls, 0) /\ NothingRead /\ NothingListed /\ NothingNamed

\* a program with two goroutines that upload concurrently
InitRace ==
  /\ callers = Threads /\ Start(MaxRaceCalls, MaxRaceUploads)
  /\ NothingRead /\ NothingListed /\ NothingNamed

\* an r3 program that has received the headers of a 200 download response
InitHeader ==
  /\ callers = {} /\ Start(0, 0) /\ rev = "r3"
  /\ header \in HeaderSets /\ info = NoInfo
  /\ NothingListed /\ NothingNamed

NextHeader == DownloadRead

\* a program of a revision that lists files starts a listing loop on a
\* bucket, from the empty start
InitList ==
  /\ callers = {} /\ Start(0, 0) /\ rev \in {"r2", "r3"}
  /\ NothingRead /\ NothingNamed
  /\ store \in Buckets
  /\ \E k \in {"names", "versions"}, m \in 1..MaxFileCount :
       page = [NoPage EXCEPT !.kind = k, !.max = m, !.done = FALSE]

NextList == ListFileNamesPage \/ ListFileVersionsPage

\* a program that uploads a file under a name and, where the revision has
\* downloads that read the headers, downloads it again
InitNames ==
  /\ callers = {} /\ Start(0, 0)
  /\ NothingRead /\ NothingListed
  /\ \E n \in UploadNames : trip = [NoTrip EXCEPT !.stage = "named", !.fileName = n]

NextNames == UploadName \/ DownloadName \/ DownloadRead
\* the steps of the calls that acquire, cache or use an upload lease
NextRace ==
  \E t \in Threads :
    \/ GetUploadURL(t)
    \/ UploadFileLazy(t)
    \/ UploadFileLazyLease(t)
    \/ UploadFileLazyStore(t)
    \/ UploadFileLazyURL(t)
    \/ UploadFileLazySend(t)
    \/ SetUpload(t)
    \/ UploadFile(t)
    \/ UploadFileURL(t)
    \/ UploadFileSend(t)
    \/ UploadUploadFile(t)
    \/ BucketUploadFile(t)
    \/ BucketUploadFileLease(t)
    \/ BucketUploadFileStore(t)
    \/ BucketUploadFileSend(t)

\* every operation of the library
Next ==
  \/ NextRace
  \/ \E t \in Threads :
       \/ NewB2(t)
       \/ CreateBucket(t)
       \/ DeleteBucket(t)
       \/ UpdateBucket(t)
       \/ DeleteFileVersion(t)
       \/ ListBuckets(t)
       \/ ListFileNames(t)
       \/ ListFileVersions(t)
       \/ GetFileInfo(t)
       \/ HideFile(t)
       \/ DownloadFileByID(t)
       \/ DownloadFileByName(t)
       \/ BucketDelete(t)
       \/ BucketUpdate(t)
       \/ BucketListFileNames(t)
       \/ BucketListFileVersions(t)
       \/ BucketHideFile(t)
       \/ FileInfoDownload(t)
       \/ FileInfoDelete(t)
       \/ FileInfoHide(t)
       \/ FileNameGetFileInfo(t)

Spec == Init /\ [][Next]_vars

SpecRace == InitRace /\ [][NextRace]_vars

SpecHeader == InitHeader /\ [][NextHeader]_vars

\* the loop is the caller's own code: it goes on until it is done
SpecList == InitList /\ [][NextList]_vars /\ WF_vars(NextList)

SpecNames == InitNames /\ [][NextNames]_vars

(* ------------------------------- claims -------------------------------- *)

\* caller t is between calls, and its frame is the one of its last call
ReturnedCall(t) == t \in callers /\ pc[t] = "idle" /\ call[t].op # "none"

\* caller t takes a step of its call (a step changes its frame or its place)
Steps(t) == call'[t] # call[t] \/ pc'[t] # pc[t]

\* caller t enters a new call
Enters(t) == budget'[t] < budget[t]

UploadOps == {"UploadFile", "Bucket.UploadFile", "Upload.UploadFile"}

\* C1: every upload request that names a target bucket (the bucket id given
\* to Session.UploadFile, the ID of the Bucket handle) carries a lease that
\* was granted by a lease request for that bucket.
C1_LeaseOfTargetBucket ==
  \A t \in Threads :
    (ReturnedCall(t) /\ call[t].op \in UploadOps /\ call[t].url # 0 /\ call[t].bkt # "")
      => call[t].lfor = call[t].bkt

\* C2: a Session.UploadFile call that finds no lease cached, and is given no
\* bucket id, returns a configuration error in its first step: it has sent
\* no request, returns no FileInfo, and leaves the Session, its lease cache
\* and the service untouched.
C2_NoLeaseIsLocalError ==
  [][\A t \in Threads :
       (Enters(t) /\ call'[t].op = "UploadFile" /\ session.Upload.nil /\ call'[t].bkt = "")
         => /\ call'[t].err = "config" /\ call'[t].val = "nil"
            /\ pc'[t] = "idle"
            /\ call'[t].reqs = 0 /\ call'[t].url = 0
            /\ session' = session /\ issued' = issued /\ held' = held]_vars

C2_Witness ==
  \E t \in Threads :
    ReturnedCall(t) /\ call[t].op = "UploadFile" /\ call[t].err = "config"
    /\ session.Upload.nil

\* the lease cache of the revision: B2.Upload in r1 and r2, Bucket.upload in r3
Cache == IF rev = "r3" THEN bucket.upload ELSE session.Upload

\* C3: in a program with one goroutine, the store of a Bucket.UploadFile call
\* whose lease request succeeded fills Bucket.upload with the granted lease;
\* once Bucket.upload holds a lease it keeps that lease; no step of a Bucket.UploadFile call made while the cache
\* is filled issues a lease request; and every upload request such a call
\* sends carries the URL and token of the cached lease, whatever its result.
C3_CachedLeaseIsReused ==
  [][\A t \in Threads :
       /\ (In(t, "store") /\ Steps(t) /\ call[t].op = "Bucket.UploadFile"
           /\ call[t].err = "nil")
            => (~bucket'.upload.nil /\ bucket'.upload = call[t].u)
       /\ ~bucket.upload.nil => bucket'.upload = bucket.upload
       /\ (~bucket.upload.nil /\ Steps(t) /\ call'[t].op = "Bucket.UploadFile")
            => /\ call'[t].lreqs = (IF Enters(t) THEN 0 ELSE call[t].lreqs)
               /\ issued' = issued
               /\ (pc'[t] = "idle" /\ call'[t].url # 0)
                    => /\ call'[t].url = bucket.upload.UploadURL
                       /\ call'[t].token = bucket.upload.AuthToken]_vars

C3_Witness ==
  \E t \in Threads :
    /\ ReturnedCall(t) /\ call[t].op = "Bucket.UploadFile" /\ call[t].had
    /\ call[t].err = "api" /\ call[t].url = bucket.upload.UploadURL /\ call[t].url # 0

\* C4: no step of an upload call that found its lease on entry (Upload.UploadFile,
\* Session.UploadFile or Bucket.UploadFile with a filled cache) writes a lease
\* cache or the lease, or asks the service for a lease, whether the call ends
\* with a FileInfo or with an error.
C4_UploadKeepsLease ==
  [][\A t \in Threads :
       (Steps(t) /\ call'[t].op \in UploadOps /\ call'[t].had)
         => /\ session'.Upload = session.Upload
            /\ bucket'.upload = bucket.upload
            /\ held' = held
            /\ issued' = issued
            /\ call'[t].lreqs = 0]_vars

C4_Witness ==
  \E t \in Threads :
    /\ ReturnedCall(t) /\ call[t].op \in UploadOps /\ call[t].had
    /\ call[t].err = "api" /\ call[t].url # 0
    /\ ~Cache.nil /\ Cache.UploadURL = call[t].url

\* caller t is past the store of a first-use acquisition that succeeded
Acquired(t) ==
  /\ t \in callers /\ pc[t] \in {"url", "token", "upload"}
  /\ call[t].op \in {"UploadFile", "Bucket.UploadFile"} /\ ~call[t].had

\* C5: when two first-use upload calls on one handle have both seen the cache
\* empty and both stored their lease, two distinct leases were granted and the
\* cache holds exactly one of them; and no step of Upload.UploadFile on a lease
\* the caller holds asks for a lease or writes the Session, the Bucket or the
\* lease.
C5_RaceKeepsOneLease ==
  /\ []((Acquired(1) /\ Acquired(2))
          => /\ ~call[1].u.nil /\ ~call[2].u.nil
             /\ call[1].lreqs = 1 /\ call[2].lreqs = 1
             /\ call[1].u # call[2].u
             /\ Cache \in {call[1].u, call[2].u})
  /\ [][\A t \in Threads :
          (Steps(t) /\ call'[t].op = "Upload.UploadFile")
            => /\ session' = session /\ bucket' = bucket /\ held' = held
               /\ issued' = issued /\ call'[t].lreqs = 0]_vars

C5_Witness ==
  /\ Acquired(1) /\ Acquired(2)
  /\ Cache = call[1].u /\ Cache # call[2].u /\ ~call[2].u.nil

\* an upload that had to acquire its lease first: the lazy variants, entered
\* with an empty cache
FirstUse(t) ==
  /\ call[t].op \in {"UploadFile", "Bucket.UploadFile"}
  /\ ~call[t].had /\ call[t].err # "config"

C7_NoRetry ==
  /\ [](\A t \in Threads :
          /\ call[t].lreqs <= 1
          /\ call[t].failed => (call[t].err # "nil" /\ pc[t] \in {"idle", "store"})
          /\ (ReturnedCall(t) /\ call[t].failed /\ call[t].reqs = 2)
               => (FirstUse(t) /\ call[t].lreqs = 1 /\ call[t].url # 0))
  /\ [][\A t \in Threads :
          (call[t].failed /\ pc[t] = "store" /\ Steps(t))
            => (pc'[t] = "idle" /\ call'[t] = call[t])]_vars

C7_Witness ==
  \E t \in Threads :
    /\ ReturnedCall(t) /\ FirstUse(t) /\ call[t].failed
    /\ call[t].lreqs = 1 /\ call[t].reqs = 1 /\ call[t].url = 0

DownloadOps == {"DownloadFileByID", "DownloadFileByName", "FileInfo.Download"}
\* the methods whose only result is the error
ErrorOnlyOps == {"Bucket.Delete", "Bucket.Update"}

\* C8: no call returns both a result and an error; a call whose response is
\* 200 with the JSON of its result returns that result and no error (downloads
\* aside, whose 200 response is not read through readResp); a call whose
\* response has another status returns no result and an error.
C8_ResultOrError ==
  \A t \in Threads :
    ReturnedCall(t) =>
      /\ ~(call[t].val # "nil" /\ call[t].err # "nil")
      /\ (call[t].resp.status = GoodStatus /\ call[t].resp.json
          /\ call[t].op \notin DownloadOps)
           => (call[t].err = "nil" /\ (call[t].op \notin ErrorOnlyOps => call[t].val = "value"))
      /\ call[t].resp.status \notin {0, GoodStatus}
           => (call[t].val = "nil" /\ call[t].err # "nil")

C8_Witness ==
  \E t \in Threads :
    /\ ReturnedCall(t) /\ call[t].op = "NewB2"
    /\ call[t].resp.status \notin {0, GoodStatus}
    /\ call[t].val = "nil" /\ call[t].err # "nil"

\* C9: a call whose response has a status other than 200 and a body that
\* decodes as the error object returns the typed *Err.
C9_ApiErrorIsTyped ==
  \A t \in Threads :
    (ReturnedCall(t) /\ call[t].resp.status \notin {0, GoodStatus} /\ call[t].resp.json)
      => call[t].err = "api"

\* C10: a download whose response status is not 200 writes nothing to the
\* sink, returns no FileInfo, and returns the error read from the body: the
\* decoded *Err when the body is the error object.
C10_FailedDownloadWritesNothing ==
  \A t \in Threads :
    (ReturnedCall(t) /\ call[t].op \in DownloadOps
     /\ call[t].resp.status \notin {0, GoodStatus})
      => /\ ~call[t].copied
         /\ call[t].val = "nil" /\ call[t].err # "nil"
         /\ call[t].resp.json => call[t].err = "api"

C10_Witness ==
  \E t \in Threads :
    /\ ReturnedCall(t) /\ call[t].op = "DownloadFileByName"
    /\ call[t].resp.status \notin {0, GoodStatus} /\ call[t].resp.json
    /\ call[t].err = "api" /\ ~call[t].copied

\* the entries the info headers of h call for: the name without the prefix,
\* and the first value
InfoOf(h) ==
  {<<k[2], h[k][1]>> : k \in {x \in DOMAIN h : HasPrefix(x, HeaderInfoPrefix)}}

\* C11: a download whose 200 response has a Content-Length and a file name
\* that can be read returns its FileInfo, and the Info of that FileInfo has
\* exactly one entry per info header: the name without the prefix, with the
\* header's first value.
C11_InfoHeadersFolded ==
  (/\ info.read
   /\ ParseInt(Get(header, ContentLength)).ok
   /\ QueryUnescape(Get(header, XBzFileName)).ok)
    => /\ ~crashed
       /\ info.val = "value" /\ info.err = "nil"
       /\ info.Info.entries = InfoOf(header)

\* t is an optional sign and then decimal digits only
IsInteger(t) ==
  LET d == IF t # <<>> /\ t[1] \in {"+", "-"} THEN Tail(t) ELSE t IN
  d # <<>> /\ \A i \in 1..Len(d) : IsDigit(d[i])
\* the integer such a text denotes
ValueOf(t) ==
  IF t[1] = "-" THEN 0 - Magnitude(Tail(t))
  ELSE IF t[1] = "+" THEN Magnitude(Tail(t)) ELSE Magnitude(t)

C13_SessionIdentityIsFixed ==
  [][session' = [session EXCEPT !.Upload = session'.Upload]]_vars

C13_Witness ==
  \E t \in Threads :
    /\ ReturnedCall(t) /\ call[t].op = "NewB2" /\ call[t].err = "nil"
    /\ ~session.Upload.nil
    /\ session.AuthToken = NewSession.AuthToken /\ session.APIUrl = NewSession.APIUrl

\* the four fields of a Bucket handle that identify the bucket
Identity(b) == [AccountID |-> b.AccountID, ID |-> b.ID, Name |-> b.Name, Type |-> b.Type]

\* C14: a Bucket.Update call that returns without error leaves the four
\* identity fields of the handle equal to the bucket the service answered
\* with; one that returns an error leaves the four as they were; neither
\* touches the rest of the handle.
C14_UpdateIsAllOrNothing ==
  [][\A t \in Threads :
       (Enters(t) /\ call'[t].op = "Bucket.Update")
         => /\ Identity(bucket') =
                 (IF call'[t].err = "nil"
                    THEN UpdatedBucket(bucket, call'[t].bucketType)
                    ELSE Identity(bucket))
            /\ bucket'.upload = bucket.upload /\ bucket'.conn = bucket.conn
            /\ pc'[t] = "idle"]_vars

C14_Witness ==
  \E t \in Threads :
    /\ ReturnedCall(t) /\ call[t].op = "Bucket.Update" /\ call[t].err = "nil"
    /\ call[t].bucketType = "allPublic"
    /\ Identity(bucket) = [AccountID |-> "acct", ID |-> "b1", Name |-> "alpha",
                           Type |-> "allPublic"]

\* C17: in the revision with convenience methods, every Bucket, FileInfo and
\* FileName handle the program was given has its conn set.
C17_HandlesCarrySession ==
  rev = "r3" =>
    /\ bucket.live => bucket.conn
    /\ file.live => file.conn
    /\ fname.live => fname.conn

\* url and token are the two halves of one lease the service granted
OneLease(url, token) ==
  \E n \in 1..issued, b \in BucketIDs :
    Lease(n, b).UploadURL = url /\ Lease(n, b).AuthToken = token

\* C18: every upload request that was sent went to the URL of a lease with
\* the token of that same lease.
C18_UrlAndTokenOfOneLease ==
  \A t \in Threads :
    (ReturnedCall(t) /\ call[t].op \in UploadOps /\ call[t].url # 0)
      => OneLease(call[t].url, call[t].token)

\* C19: the store of a Bucket.UploadFile call whose lease request failed
\* leaves Bucket.upload nil and returns the error, and the call has sent its
\* lease request only; a Bucket.UploadFile call entered while Bucket.upload
\* is nil starts with the lease request.
C19_FailedAcquisitionLeavesNothing ==
  [][\A t \in Threads :
       /\ (In(t, "store") /\ Steps(t) /\ call[t].op = "Bucket.UploadFile"
           /\ call[t].err # "nil")
            => /\ bucket'.upload = NilLease
               /\ pc'[t] = "idle" /\ call'[t] = call[t]
               /\ call[t].url = 0 /\ call[t].reqs = call[t].lreqs /\ call[t].val = "nil"
       /\ (Enters(t) /\ call'[t].op = "Bucket.UploadFile" /\ bucket.upload.nil)
            => (pc'[t] = "lease" /\ ~call'[t].had)]_vars

C19_Witness ==
  \E t \in Threads :
    /\ In(t, "lease") /\ call[t].op = "Bucket.UploadFile"
    /\ budget[t] < MaxCalls - 1 /\ issued = 0 /\ bucket.upload = NilLease

IsPrefix(s, t) == Len(s) <= Len(t) /\ SubSeq(t, 1, Len(s)) = s

\* C15: in a loop that passes each returned nextFileName on as the next
\* startFileName, from the empty start and with a maxFileCount of 1 or more:
\* what has been collected is always a prefix of the bucket's names in
\* order; while the loop is not done the cursor is the first name not yet
\* collected; the cursor the caller holds is the one the service answered
\* with and the start the service sees is the one the caller passed; the
\* loop ends, and then everything is collected.
C15_PaginationIsComplete ==
  /\ [](page.kind = "names" =>
          /\ IsPrefix(page.listed, NamesIn(store))
          /\ page.start = page.next
          /\ page.done => (page.listed = NamesIn(store) /\ page.start[1] = ""
                           /\ page.err = "nil")
          /\ (~page.done /\ page.calls > 0)
               => page.start[1] = NamesIn(store)[Len(page.listed) + 1])
  /\ [][(page.kind = "names" /\ page' # page)
          => /\ page'.req.startFileName = page.start[1]
             /\ page'.req.maxFileCount = page.max]_vars
  /\ (page.kind = "names" ~> page.done)

C15_Witness ==
  /\ page.kind = "names" /\ page.done /\ page.calls = 3
  /\ page.listed = <<"a", "b", "c">> /\ page.req.startFileName = "c"

\* C16: in a loop that passes the second and third result of
\* ListFileVersions on as its second and third argument, the start the
\* caller holds is the (nextFileName, nextFileId) the service answered with,
\* and the loop ends without error having collected every version once.
C16_CursorInParameterOrder ==
  page.kind = "versions" =>
    /\ page.start = page.next
    /\ page.done => (page.err = "nil" /\ page.listed = store)


\* the characters a file name cannot carry as they are
NeedEncoding == {" ", "%", "?", "#"}

\* C20: file names round-trip through upload and download.  The value an
\* upload puts in X-Bz-File-Name is never the raw name when the name has a
\* character that needs encoding, and the name readHeaderFileInfo decodes
\* from that same value is the name that was uploaded.
C20_FileNamesRoundTrip ==
  /\ trip.stage \in {"sent", "served"}
       => ((\E i \in 1..Len(trip.fileName) : trip.fileName[i] \in NeedEncoding)
             => trip.sent # trip.fileName)
  /\ (trip.stage = "served" /\ info.read)
       => (info.err = "nil" /\ info.Name = trip.fileName)

====
